---- MODULE Spec2Model ----
(***************************************************************************)
(* tracelog: a logging facade that correlates zap log entries with         *)
(* OpenTelemetry spans.  The module models the TraceLogger of              *)
(* src/unnamed/part_002 (lines 311-505), the earlier variant of            *)
(* src/unnamed/part_001 and the key/value ("sugared") variant of           *)
(* src/unnamed/part_002 (lines 1-310).                                     *)
(*                                                                         *)
(* TraceLogger values, zap loggers, HTTP requests and header maps are Go   *)
(* reference objects, so each is kept in a heap (a sequence indexed by the *)
(* object's identity); sharing of a zap logger or of a header map between  *)
(* two objects is sharing of an index.                                     *)
(***************************************************************************)
EXTENDS Integers, Sequences, FiniteSets

VARIABLES loggers, zaps, reqs, hdrs, spanAttrs, propagator, input, call, events

vars == <<loggers, zaps, reqs, hdrs, spanAttrs, propagator, input, call, events>>

(***************************************************************************)
(* Bounds of the model.                                                    *)
(***************************************************************************)
MaxLoggers == 3
MaxRequests == 2
MaxArgs == 3
MaxLooseArgs == 4

(***************************************************************************)
(* Trace and span identifiers: byte arrays of 16 and 8 bytes, printed as   *)
(* lower-case hex by TraceID.String / SpanID.String.                       *)
(***************************************************************************)
TraceIDLen == 16
SpanIDLen == 8

ZeroID(n) == [i \in 1..n |-> 0]

TraceIDA == <<75, 249, 47, 53, 119, 179, 77, 166, 163, 206, 146, 157, 14, 14, 71, 54>>
TraceIDB == <<10, 247, 101, 25, 22, 205, 67, 221, 132, 72, 235, 33, 28, 128, 49, 156>>
SpanIDA == <<0, 240, 103, 170, 11, 169, 2, 183>>
SpanIDB == <<183, 173, 107, 113, 105, 32, 51, 49>>

HexDigits == <<"0", "1", "2", "3", "4", "5", "6", "7", "8", "9", "a", "b", "c", "d", "e", "f">>

\* hex.EncodeToString, as a list of characters
RECURSIVE HexChars(_)
HexChars(bytes) ==
    IF bytes = <<>> THEN <<>>
    ELSE <<HexDigits[(Head(bytes) \div 16) + 1], HexDigits[(Head(bytes) % 16) + 1]>>
         \o HexChars(Tail(bytes))

RECURSIVE Join(_)
Join(chars) == IF chars = <<>> THEN "" ELSE Head(chars) \o Join(Tail(chars))

\* TraceID.String / SpanID.String
HexString(bytes) == Join(HexChars(bytes))

IsHexDigit(c) == \E d \in 1..16 : HexDigits[d] = c
HexValue(c) == (CHOOSE d \in 1..16 : HexDigits[d] = c) - 1

IsHexString(s) == \A i \in 1..Len(s) : IsHexDigit(s[i])

\* the two digits of a byte read low nibble first
HexDecodeLowFirst(s) == [i \in 1..(Len(s) \div 2) |-> HexValue(s[2 * i - 1]) + 16 * HexValue(s[2 * i])]

\* hex.DecodeString on a string already known to be lower-case hex of even length
HexDecode(s) == [i \in 1..(Len(s) \div 2) |-> 16 * HexValue(s[2 * i - 1]) + HexValue(s[2 * i])]

(***************************************************************************)
(* Span contexts, spans and contexts.                                      *)
(***************************************************************************)
SpanContext(tid, sid, flags, remote) ==
    [tid |-> tid, sid |-> sid, flags |-> flags, remote |-> remote]

EmptySpanContext == SpanContext(ZeroID(TraceIDLen), ZeroID(SpanIDLen), 0, FALSE)

IsValid(sc) == sc.tid # ZeroID(TraceIDLen) /\ sc.sid # ZeroID(SpanIDLen)

\* the recording spans started by the SDK tracer; id names the span object
SpanIds == {1, 2}
RecordingSpan(id) ==
    [kind |-> "recording",
     sc |-> SpanContext(TraceIDA, IF id = 1 THEN SpanIDA ELSE SpanIDB, 1, FALSE),
     id |-> id]

\* trace.ContextWithRemoteSpanContext wraps the span context in a span that records nothing
NonRecordingSpan(sc) == [kind |-> "nonrecording", sc |-> sc, id |-> 0]

\* what trace.SpanFromContext returns for a context without a span
noopSpan == [kind |-> "noop", sc |-> EmptySpanContext, id |-> 0]

NoSpan == [kind |-> "none", sc |-> EmptySpanContext, id |-> 0]

\* the zero value of the ctx field of a TraceLogger
NilContext == [nil |-> TRUE, span |-> NoSpan]
Background == [nil |-> FALSE, span |-> NoSpan]
ContextWithSpan(ctx, span) == [nil |-> FALSE, span |-> span]

\* trace.SpanFromContext: never nil; the no-op span when ctx is nil or carries no span
SpanFromContext(ctx) ==
    IF ctx.nil \/ ctx.span.kind = "none" THEN noopSpan ELSE ctx.span

HasSpan(ctx) == ~ctx.nil /\ ctx.span.kind # "none"

\* the contexts a caller hands to the logger: without a span, with a recording
\* span of the SDK tracer, or with the span of the no-op tracer (empty span context)
Contexts ==
    {Background}
    \cup {ContextWithSpan(Background, RecordingSpan(id)) : id \in SpanIds}
    \cup {ContextWithSpan(Background, NonRecordingSpan(EmptySpanContext))}

(***************************************************************************)
(* zap fields and the zap logger.                                          *)
(***************************************************************************)
Str(s) == [t |-> "string", v |-> s]
Field(key, val) == [t |-> "field", key |-> key, val |-> val]
String(key, s) == Field(key, Str(s))
Any(key, val) == Field(key, val)
KeyValue(key, s) == [t |-> "attr", key |-> key, val |-> Str(s)]

IsField(arg) == arg.t = "field"
IsKeyValue(arg) == arg.t = "attr"
IsString(arg) == arg.t = "string"

DebugLevel == -1
InfoLevel == 0
WarnLevel == 1
ErrorLevel == 2
DPanicLevel == 3
PanicLevel == 4
FatalLevel == 5

\* zap.Logger.With: the receiver itself when no field is given, else a clone
\* whose core carries the receiver's fields followed by the new ones
ZapWithShared(zs, b, fields) ==
    [zaps |-> [zs EXCEPT ![b].fields = @ \o fields], id |-> b]

ZapWith(zs, b, fields) ==
    IF fields = <<>>
    THEN [zaps |-> zs, id |-> b]
    ELSE [zaps |-> Append(zs, [zs[b] EXCEPT !.fields = @ \o fields]), id |-> Len(zs) + 1]

\* zap.Logger.Named: the receiver itself for the empty name, else a clone
\* with the name appended as a new segment
ZapNamed(zs, b, name) ==
    IF name = ""
    THEN [zaps |-> zs, id |-> b]
    ELSE [zaps |-> Append(zs, [zs[b] EXCEPT !.name = Append(@, name)]), id |-> Len(zs) + 1]

\* a call of a leveled method of the underlying logger
LogEvent(b, lvl, msg, fields) ==
    [kind |-> "log", base |-> b, lvl |-> lvl, msg |-> msg, fields |-> fields]

\* a call of Span.SetAttributes (made on whatever span SpanFromContext returned)
SetAttributesEvent(span, attrs) ==
    [kind |-> "SetAttributes", span |-> span, attrs |-> attrs]

\* Span.SetAttributes: only a recording span keeps the attributes; the last
\* value set for a key wins
SetAttributes(sa, span, attrs) ==
    IF span.kind = "recording"
    THEN [sa EXCEPT ![span.id] =
              {a \in @ : \A i \in DOMAIN attrs : attrs[i].key # a.key}
              \cup {attrs[i] : i \in {j \in DOMAIN attrs :
                                        \A k \in DOMAIN attrs : k > j => attrs[k].key # attrs[j].key}}]
    ELSE sa

NoCall == [op |-> "init", recv |-> 0, ctx |-> NilContext, args |-> <<>>, req |-> 0,
           ret |-> 0, lvl |-> 0]

(***************************************************************************)
(* Inputs drawn by the operations.                                         *)
(***************************************************************************)
RECURSIVE SeqsUpTo(_, _)
SeqsUpTo(S, n) ==
    IF n = 0 THEN {<<>>}
    ELSE LET shorter == SeqsUpTo(S, n - 1)
         IN shorter \cup {Append(s, x) : s \in {q \in shorter : Len(q) = n - 1}, x \in S}

FieldInputs == {String("user", "alice"), String("op", "read")}
AttrInputs == {KeyValue("http.status", "200"), KeyValue("peer", "db")}
\* arguments that are neither a zap.Field nor an attribute.KeyValue
OtherInputs == {Str("loose")}
NameInputs == {"", "svc"}
MsgInputs == {"msg"}

(***************************************************************************)
(* TraceLogger (src/unnamed/part_002, lines 311-505).                      *)
(***************************************************************************)
TraceLogger(base, ctx) == [base |-> base, ctx |-> ctx]

TypeOK ==
    /\ Len(loggers) \in 1..MaxLoggers
    /\ \A i \in DOMAIN loggers : loggers[i].base \in DOMAIN zaps
    /\ \A i \in DOMAIN reqs : reqs[i].hdr \in DOMAIN hdrs

\* &TraceLogger{base: tl.base.With(args...)}: the ctx field is left at its zero value
WithResult(ls, zs, tl, args) ==
    LET z == ZapWith(zs, tl.base, args)
    IN [loggers |-> Append(ls, TraceLogger(z.id, NilContext)), zaps |-> z.zaps,
        ret |-> Len(ls) + 1]

\* the span identifier written from the trace identifier
TraceFieldsSpanFromTrace(sc) ==
    <<String("traceID", HexString(sc.tid)),
      String("dd.traceID", HexString(sc.tid)),
      String("spanID", HexString(sc.tid)),
      String("dd.spanID", HexString(sc.sid))>>

\* the four fields SetContext derives from the span context
TraceFields(sc) ==
    <<String("traceID", HexString(sc.tid)),
      String("dd.traceID", HexString(sc.tid)),
      String("spanID", HexString(sc.sid)),
      String("dd.spanID", HexString(sc.sid))>>

\* the Go nil check on the Span interface value
IsNilSpan(span) == span.kind = "nil"

\* tl is the receiver's identity; l := &TraceLogger{base: tl.base, ctx: ctx}
SetContextResult(ls, zs, tl, ctx) ==
    LET l == TraceLogger(ls[tl].base, ctx)
        span == SpanFromContext(l.ctx)
    IN IF IsNilSpan(span)
       THEN [loggers |-> ls, zaps |-> zs, ret |-> tl]
       ELSE WithResult(ls, zs, l, TraceFields(span.sc))

\* zap's Fatal ends the process after writing the entry
Running == call.op \notin {"Fatal", "Fatalw"}

\* &TraceLogger{base: tl.base.Named(name), ctx: tl.ctx}
NamedResult(ls, zs, tl, name) ==
    LET z == ZapNamed(zs, ls[tl].base, name)
    IN [loggers |-> Append(ls, TraceLogger(z.id, ls[tl].ctx)), zaps |-> z.zaps,
        ret |-> Len(ls) + 1]

Named(tl, name) ==
    /\ Running
    /\ Len(loggers) < MaxLoggers
    /\ LET res == NamedResult(loggers, zaps, tl, name)
       IN /\ zaps' = res.zaps
          /\ loggers' = res.loggers
    /\ call' = [NoCall EXCEPT !.op = "Named", !.recv = tl, !.args = <<name>>,
                              !.ret = Len(loggers) + 1]
    /\ events' = <<>>
    /\ UNCHANGED <<reqs, hdrs, spanAttrs, propagator, input>>

SetContext(tl, ctx) ==
    /\ Running
    /\ Len(loggers) < MaxLoggers
    /\ LET res == SetContextResult(loggers, zaps, tl, ctx)
       IN /\ loggers' = res.loggers
          /\ zaps' = res.zaps
          /\ call' = [NoCall EXCEPT !.op = "SetContext", !.recv = tl, !.ctx = ctx,
                                    !.ret = res.ret]
    /\ events' = <<>>
    /\ UNCHANGED <<reqs, hdrs, spanAttrs, propagator, input>>

With(tl, args) ==
    /\ Running
    /\ Len(loggers) < MaxLoggers
    /\ LET res == WithResult(loggers, zaps, loggers[tl], args)
       IN /\ loggers' = res.loggers
          /\ zaps' = res.zaps
          /\ call' = [NoCall EXCEPT !.op = "With", !.recv = tl, !.args = args,
                                    !.ret = res.ret]
    /\ events' = <<>>
    /\ UNCHANGED <<reqs, hdrs, spanAttrs, propagator, input>>

\* parseArguments: one pass over args, appending by dynamic type
RECURSIVE parseArgumentsFrom(_, _, _, _)
parseArgumentsFrom(args, i, fields, tags) ==
    IF i > Len(args) THEN [fields |-> fields, tags |-> tags]
    ELSE IF IsKeyValue(args[i]) THEN parseArgumentsFrom(args, i + 1, fields, Append(tags, args[i]))
    ELSE IF IsField(args[i]) THEN parseArgumentsFrom(args, i + 1, Append(fields, args[i]), tags)
    ELSE parseArgumentsFrom(args, i + 1, fields, tags)

\* the classifier with each tag put in front of the earlier ones
parseArgumentsNewestTagFirst(args) ==
    LET parsed == parseArgumentsFrom(args, 1, <<>>, <<>>)
    IN [fields |-> parsed.fields,
        tags |-> [i \in 1..Len(parsed.tags) |-> parsed.tags[Len(parsed.tags) + 1 - i]]]

parseArguments(args) == parseArgumentsFrom(args, 1, <<>>, <<>>)

\* tagSpan: the events and the span attributes after tagging the span of ctx
tagSpan(sa, ctx, tags) ==
    LET span == SpanFromContext(ctx)
    IN IF IsNilSpan(span)
       THEN [spanAttrs |-> sa, events |-> <<>>]
       ELSE [spanAttrs |-> SetAttributes(sa, span, tags),
             events |-> <<SetAttributesEvent(span, tags)>>]

\* the body shared by Debug, Info, Warn, Error, DPanic, Panic and Fatal
Leveled(op, lvl, tl, msg, args) ==
    /\ Running
    /\ args = input
    /\ LET parsed == parseArguments(args)
           tagged == tagSpan(spanAttrs, loggers[tl].ctx, parsed.tags)
       IN /\ spanAttrs' = tagged.spanAttrs
          /\ events' = tagged.events \o <<LogEvent(loggers[tl].base, lvl, Str(msg), parsed.fields)>>
    /\ call' = [NoCall EXCEPT !.op = op, !.recv = tl, !.args = args, !.lvl = lvl]
    /\ UNCHANGED <<loggers, zaps, reqs, hdrs, propagator, input>>

Debug(tl, msg, args) == Leveled("Debug", DebugLevel, tl, msg, args)
Info(tl, msg, args) == Leveled("Info", InfoLevel, tl, msg, args)
Warn(tl, msg, args) == Leveled("Warn", WarnLevel, tl, msg, args)
Error(tl, msg, args) == Leveled("Error", ErrorLevel, tl, msg, args)
DPanic(tl, msg, args) == Leveled("DPanic", DPanicLevel, tl, msg, args)
Panic(tl, msg, args) == Leveled("Panic", PanicLevel, tl, msg, args)
Fatal(tl, msg, args) == Leveled("Fatal", FatalLevel, tl, msg, args)

(***************************************************************************)
(* The earlier TraceLogger (src/unnamed/part_001) where it differs.        *)
(***************************************************************************)
\* Context: as SetContext, except that the unreachable nil branch returns the new logger
ContextResult(ls, zs, tl, ctx) ==
    LET l == TraceLogger(ls[tl].base, ctx)
        span == SpanFromContext(l.ctx)
    IN IF IsNilSpan(span)
       THEN [loggers |-> Append(ls, l), zaps |-> zs, ret |-> Len(ls) + 1]
       ELSE WithResult(ls, zs, l, TraceFields(span.sc))

Context(tl, ctx) ==
    /\ Running
    /\ Len(loggers) < MaxLoggers
    /\ LET res == ContextResult(loggers, zaps, tl, ctx)
       IN /\ loggers' = res.loggers
          /\ zaps' = res.zaps
          /\ call' = [NoCall EXCEPT !.op = "Context", !.recv = tl, !.ctx = ctx,
                                    !.ret = res.ret]
    /\ events' = <<>>
    /\ UNCHANGED <<reqs, hdrs, spanAttrs, propagator, input>>

\* Named of part_001: the new logger is bound to context.Background()
NamedBackgroundResult(ls, zs, tl, name) ==
    LET z == ZapNamed(zs, ls[tl].base, name)
    IN [loggers |-> Append(ls, TraceLogger(z.id, Background)), zaps |-> z.zaps,
        ret |-> Len(ls) + 1]

NamedBackground(tl, name) ==
    /\ Running
    /\ Len(loggers) < MaxLoggers
    /\ LET res == NamedBackgroundResult(loggers, zaps, tl, name)
       IN /\ zaps' = res.zaps
          /\ loggers' = res.loggers
    /\ call' = [NoCall EXCEPT !.op = "NamedBackground", !.recv = tl, !.args = <<name>>,
                              !.ret = Len(loggers) + 1]
    /\ events' = <<>>
    /\ UNCHANGED <<reqs, hdrs, spanAttrs, propagator, input>>

\* NewLogger(WithLogger(lg)): one TraceLogger on the given zap logger, ctx unset
NewLoggerAt(level) ==
    [loggers |-> <<TraceLogger(1, NilContext)>>,
     zaps |-> <<[name |-> <<>>, fields |-> <<>>, level |-> level]>>, ret |-> 1]

\* on the logger of zap.NewProduction, which writes from the info level up
NewLogger == NewLoggerAt(InfoLevel)

Init ==
    /\ zaps = NewLogger.zaps
    /\ loggers = NewLogger.loggers
    /\ input = <<>>
    /\ reqs = <<>>
    /\ hdrs = <<>>
    /\ spanAttrs = [id \in SpanIds |-> {}]
    /\ propagator = "none"
    /\ call = NoCall
    /\ events = <<>>

Next ==
    \/ \E tl \in DOMAIN loggers, name \in NameInputs : Named(tl, name)
    \/ \E tl \in DOMAIN loggers, ctx \in Contexts : SetContext(tl, ctx)
    \/ \E tl \in DOMAIN loggers, args \in SeqsUpTo(FieldInputs, MaxArgs) : With(tl, args)
    \/ \E tl \in DOMAIN loggers, ctx \in Contexts : Context(tl, ctx)
    \/ \E tl \in DOMAIN loggers, name \in NameInputs : NamedBackground(tl, name)

Spec == Init /\ [][Next]_vars

ArgInputs == FieldInputs \cup AttrInputs \cup OtherInputs

\* the loggers a leveled call can be made on: the constructed logger and the
\* loggers one binding, naming or With call derives from it
DerivedLoggers ==
    {NewLogger}
    \cup {SetContextResult(NewLogger.loggers, NewLogger.zaps, 1, ctx) : ctx \in Contexts}
    \cup {ContextResult(NewLogger.loggers, NewLogger.zaps, 1, ctx) : ctx \in Contexts}
    \cup {NamedResult(NewLogger.loggers, NewLogger.zaps, 1, name) : name \in NameInputs}
    \cup {NamedBackgroundResult(NewLogger.loggers, NewLogger.zaps, 1, name) : name \in NameInputs}
    \cup {WithResult(NewLogger.loggers, NewLogger.zaps, NewLogger.loggers[1], <<f>>) : f \in FieldInputs}

\* the leveled entry points, each applied to the argument list drawn at the start
LogInit ==
    /\ \E h \in DerivedLoggers : loggers = h.loggers /\ zaps = h.zaps
    /\ input \in SeqsUpTo(ArgInputs, MaxArgs)
    /\ reqs = <<>>
    /\ hdrs = <<>>
    /\ spanAttrs = [id \in SpanIds |-> {}]
    /\ propagator = "none"
    /\ call = NoCall
    /\ events = <<>>

LogNext ==
    \/ \E tl \in DOMAIN loggers, m \in MsgInputs : Debug(tl, m, input)
    \/ \E tl \in DOMAIN loggers, m \in MsgInputs : Info(tl, m, input)
    \/ \E tl \in DOMAIN loggers, m \in MsgInputs : Warn(tl, m, input)
    \/ \E tl \in DOMAIN loggers, m \in MsgInputs : Error(tl, m, input)
    \/ \E tl \in DOMAIN loggers, m \in MsgInputs : DPanic(tl, m, input)
    \/ \E tl \in DOMAIN loggers, m \in MsgInputs : Panic(tl, m, input)
    \/ \E tl \in DOMAIN loggers, m \in MsgInputs : Fatal(tl, m, input)

LogSpec == LogInit /\ [][LogNext]_vars

\* argument lists that carry trace attributes, alone or after a typed field
TaggedInputs ==
    {<<a>> : a \in AttrInputs} \cup {<<String("user", "alice"), KeyValue("peer", "db")>>}

\* leveled calls on the loggers that Named, SetContext and With derive
BoundLogInit ==
    /\ zaps = NewLogger.zaps
    /\ loggers = NewLogger.loggers
    /\ input \in TaggedInputs
    /\ reqs = <<>>
    /\ hdrs = <<>>
    /\ spanAttrs = [id \in SpanIds |-> {}]
    /\ propagator = "none"
    /\ call = NoCall
    /\ events = <<>>

BoundLogNext ==
    \/ \E tl \in DOMAIN loggers, name \in NameInputs : Named(tl, name)
    \/ \E tl \in DOMAIN loggers, ctx \in Contexts : SetContext(tl, ctx)
    \/ \E tl \in DOMAIN loggers, f \in FieldInputs : With(tl, <<f>>)
    \/ \E tl \in DOMAIN loggers, m \in MsgInputs : Debug(tl, m, input)
    \/ \E tl \in DOMAIN loggers, m \in MsgInputs : Info(tl, m, input)
    \/ \E tl \in DOMAIN loggers, m \in MsgInputs : Warn(tl, m, input)
    \/ \E tl \in DOMAIN loggers, m \in MsgInputs : Error(tl, m, input)
    \/ \E tl \in DOMAIN loggers, m \in MsgInputs : DPanic(tl, m, input)
    \/ \E tl \in DOMAIN loggers, m \in MsgInputs : Panic(tl, m, input)
    \/ \E tl \in DOMAIN loggers, m \in MsgInputs : Fatal(tl, m, input)

BoundLogSpec == BoundLogInit /\ [][BoundLogNext]_vars

(***************************************************************************)
(* HTTP propagation: FromRequest and WithRequest, with the W3C trace        *)
(* context propagator installed by otel.SetTextMapPropagator (the global   *)
(* default propagates nothing).                                            *)
(***************************************************************************)
Dash == <<"-">>
NoHeader == <<>>

\* TraceContext.Inject's header value: version 00, trace id, span id, sampled flag
FormatTraceparent(sc) ==
    <<"0", "0">> \o Dash \o HexChars(sc.tid) \o Dash \o HexChars(sc.sid)
    \o Dash \o HexChars(<<sc.flags % 2>>)

\* TraceContext.extract: the span context of a traceparent value, empty when
\* the value is absent, malformed, of version ff or carries a zero identifier
ParseTraceparent(h) ==
    LET shaped ==
            /\ Len(h) >= 55
            /\ h[3] = "-" /\ h[36] = "-" /\ h[53] = "-"
            /\ IsHexString(SubSeq(h, 1, 2))
            /\ IsHexString(SubSeq(h, 4, 35))
            /\ IsHexString(SubSeq(h, 37, 52))
            /\ IsHexString(SubSeq(h, 54, 55))
            /\ (Len(h) > 55 => h[56] = "-")
        version == HexDecode(SubSeq(h, 1, 2))[1]
        sc == SpanContext(HexDecode(SubSeq(h, 4, 35)), HexDecode(SubSeq(h, 37, 52)),
                          HexDecode(SubSeq(h, 54, 55))[1] % 2, TRUE)
    IN IF h = NoHeader \/ ~shaped THEN EmptySpanContext
       ELSE IF version = 255 \/ (version = 0 /\ Len(h) # 55) THEN EmptySpanContext
       ELSE IF ~IsValid(sc) THEN EmptySpanContext
       ELSE sc

\* otel.GetTextMapPropagator().Extract(ctx, carrier)
Extract(p, ctx, header) ==
    IF p = "none" THEN ctx
    ELSE LET sc == ParseTraceparent(header.traceparent)
         IN IF ~IsValid(sc) THEN ctx ELSE ContextWithSpan(ctx, NonRecordingSpan(sc))

\* otel.GetTextMapPropagator().Inject(ctx, carrier): the header map afterwards
Inject(p, ctx, header) ==
    IF p = "none" THEN header
    ELSE LET sc == SpanFromContext(ctx).sc
         IN IF ~IsValid(sc) THEN header
            ELSE [header EXCEPT !.traceparent = FormatTraceparent(sc)]

\* propagation.HeaderCarrier(r2.Header): r2.Header is the map r.Header refers to
InjectHeader(hs, h, p, ctx) ==
    [hdrs |-> [hs EXCEPT ![h] = Inject(p, ctx, hs[h])], id |-> h]

\* the semconv attributes WithRequest derives from the request
RequestAttributes(req) ==
    <<KeyValue("net.transport", "ip_tcp")>>
    \o (IF req.user THEN <<KeyValue("enduser.id", "user")>> ELSE <<>>)
    \o <<KeyValue("http.method", "POST"), KeyValue("http.server_name", "http.server"),
         KeyValue("http.route", "url")>>

Request(ctx, hdr, user) == [ctx |-> ctx, hdr |-> hdr, user |-> user]

SetTextMapPropagator(p) ==
    /\ Running
    /\ propagator # p
    /\ propagator' = p
    /\ call' = [NoCall EXCEPT !.op = "SetTextMapPropagator"]
    /\ events' = <<>>
    /\ UNCHANGED <<loggers, zaps, reqs, hdrs, spanAttrs, input>>

FromRequest(tl, r) ==
    /\ Running
    /\ Len(loggers) < MaxLoggers
    /\ LET ctx == Extract(propagator, reqs[r].ctx, hdrs[reqs[r].hdr])
           res == SetContextResult(loggers, zaps, tl, ctx)
       IN /\ loggers' = res.loggers
          /\ zaps' = res.zaps
          /\ call' = [NoCall EXCEPT !.op = "FromRequest", !.recv = tl, !.ctx = ctx,
                                    !.req = r, !.ret = res.ret]
    /\ events' = <<>>
    /\ UNCHANGED <<reqs, hdrs, spanAttrs, propagator, input>>

WithRequest(tl, ctx, r) ==
    /\ Running
    /\ Len(reqs) < MaxRequests
    /\ LET r2 == reqs[r]
           span == SpanFromContext(r2.ctx)
           attrs == RequestAttributes(r2)
           injected == InjectHeader(hdrs, r2.hdr, propagator, ctx)
       IN /\ IF ~IsNilSpan(span)
             THEN /\ spanAttrs' = SetAttributes(spanAttrs, span, attrs)
                  /\ events' = <<SetAttributesEvent(span, attrs)>>
             ELSE /\ spanAttrs' = spanAttrs
                  /\ events' = <<>>
          /\ hdrs' = injected.hdrs
          /\ reqs' = Append(reqs, Request(ctx, injected.id, r2.user))
    /\ call' = [NoCall EXCEPT !.op = "WithRequest", !.recv = tl, !.ctx = ctx, !.req = r,
                              !.ret = Len(reqs) + 1]
    /\ UNCHANGED <<loggers, zaps, propagator, input>>

\* the traceparent values a request arrives with: none, one written by an
\* upstream service, one of an unsupported version
HeaderInputs ==
    <<NoHeader,
      FormatTraceparent(SpanContext(TraceIDB, SpanIDB, 1, FALSE)),
      <<"f", "f">> \o Dash \o HexChars(TraceIDB) \o Dash \o HexChars(SpanIDB) \o Dash \o <<"0", "1">> >>

\* the requests a caller holds, as <<context, traceparent header, basic-auth
\* user present>>: outgoing requests of http.NewRequest (background context)
\* and requests a traced handler received (a span in the context)
RequestInputs ==
    {<<Background, HeaderInputs[1], FALSE>>,
     <<Background, HeaderInputs[2], TRUE>>,
     <<Background, HeaderInputs[3], FALSE>>,
     <<ContextWithSpan(Background, RecordingSpan(2)), HeaderInputs[1], TRUE>>,
     <<ContextWithSpan(Background, RecordingSpan(2)), HeaderInputs[2], FALSE>>}

\* the context the caller passes to WithRequest: no span, the span of
\* tracer.Start, or the span a no-op tracer hands out
PassedContexts ==
    {Background,
     ContextWithSpan(Background, RecordingSpan(1)),
     ContextWithSpan(Background, NonRecordingSpan(EmptySpanContext))}

\* the request the caller holds (http.NewRequest, or the one a handler receives)
HttpInit ==
    /\ zaps = NewLogger.zaps
    /\ loggers = NewLogger.loggers
    /\ input = <<>>
    /\ \E in \in RequestInputs :
          /\ reqs = <<Request(in[1], 1, in[3])>>
          /\ hdrs = <<[traceparent |-> in[2]]>>
    /\ spanAttrs = [id \in SpanIds |-> {}]
    /\ propagator = "none"
    /\ call = NoCall
    /\ events = <<>>

HttpNext ==
    \/ \E p \in {"none", "tracecontext"} : SetTextMapPropagator(p)
    \/ \E tl \in DOMAIN loggers, r \in DOMAIN reqs : FromRequest(tl, r)
    \/ \E tl \in DOMAIN loggers, ctx \in PassedContexts, r \in DOMAIN reqs : WithRequest(tl, ctx, r)

HttpSpec == HttpInit /\ [][HttpNext]_vars

(***************************************************************************)
(* The key/value TraceLogger (src/unnamed/part_002, lines 1-310).          *)
(***************************************************************************)
oddNumberErrMsg == "Ignored key without a value."
nonStringKeyErrMsg == "Ignored key-value pairs with non-string keys."

Array(key, items) == Field(key, [t |-> "array", items |-> items])

\* the position recorded one past the key
invalidPairAfterKey(position, key, value) ==
    [position |-> position + 1, key |-> key, value |-> value]

invalidPair(position, key, value) ==
    [position |-> position, key |-> key, value |-> value]

\* the dangling key dropped without a report
danglingKeySilent(b, arg) == <<>>

\* s.base.Error(_oddNumberErrMsg, zap.Any("ignored", args[i]))
danglingKey(b, arg) ==
    <<LogEvent(b, ErrorLevel, Str(oddNumberErrMsg), <<Any("ignored", arg)>>)>>

\* the loop of sweetenFields from index i (counted from 0 as in the source),
\* then the report of the invalid pairs
RECURSIVE sweetenFieldsFrom(_, _, _, _, _, _)
sweetenFieldsFrom(b, args, i, fields, invalid, evs) ==
    LET done(f, inv, e) ==
            [fields |-> f,
             events |-> IF Len(inv) > 0
                        THEN e \o <<LogEvent(b, ErrorLevel, Str(nonStringKeyErrMsg),
                                             <<Array("invalid", inv)>>)>>
                        ELSE e]
    IN IF ~(i < Len(args)) THEN done(fields, invalid, evs)
       ELSE IF IsField(args[i + 1])
            THEN sweetenFieldsFrom(b, args, i + 1, Append(fields, args[i + 1]), invalid, evs)
       ELSE IF i = Len(args) - 1
            THEN done(fields, invalid, evs \o danglingKey(b, args[i + 1]))
       ELSE LET key == args[i + 1]
                val == args[i + 2]
            IN IF ~IsString(key)
               THEN sweetenFieldsFrom(b, args, i + 2, fields,
                                      Append(invalid, invalidPair(i, key, val)), evs)
               ELSE sweetenFieldsFrom(b, args, i + 2, Append(fields, Any(key.v, val)),
                                      invalid, evs)

sweetenFields(b, args) ==
    IF Len(args) = 0 THEN [fields |-> <<>>, events |-> <<>>]
    ELSE sweetenFieldsFrom(b, args, 0, <<>>, <<>>, <<>>)

\* With of the key/value logger: the fields come from sweetenFields
SugaredWith(s, args) ==
    /\ Running
    /\ args = input
    /\ Len(loggers) < MaxLoggers
    /\ LET sweet == sweetenFields(loggers[s].base, args)
           res == WithResult(loggers, zaps, loggers[s], sweet.fields)
       IN /\ loggers' = res.loggers
          /\ zaps' = res.zaps
          /\ events' = sweet.events
          /\ call' = [NoCall EXCEPT !.op = "SugaredWith", !.recv = s, !.args = args,
                                    !.ret = res.ret]
    /\ UNCHANGED <<reqs, hdrs, spanAttrs, propagator, input>>

\* getMessage: the template alone when there is nothing to format
getMessage(template, fmtArgs) ==
    IF Len(fmtArgs) = 0 THEN Str(template)
    ELSE IF template # "" THEN [t |-> "Sprintf", template |-> template, args |-> fmtArgs]
    ELSE IF Len(fmtArgs) = 1 /\ IsString(fmtArgs[1]) THEN fmtArgs[1]
    ELSE [t |-> "Sprint", args |-> fmtArgs]

\* s.base.Core().Enabled(lvl)
Enabled(b, lvl) == lvl >= zaps[b].level

\* s.base.Check(lvl, msg) # nil
Check(b, lvl) == lvl >= DPanicLevel \/ Enabled(b, lvl)

\* log: nothing below the enabled level; else the entry with the sweetened fields
log(op, s, lvl, template, fmtArgs, context) ==
    /\ Running
    /\ LET b == loggers[s].base
           sweet == sweetenFields(b, context)
       IN events' =
             IF lvl < DPanicLevel /\ ~Enabled(b, lvl) THEN <<>>
             ELSE IF Check(b, lvl)
                  THEN sweet.events \o <<LogEvent(b, lvl, getMessage(template, fmtArgs),
                                                   sweet.fields)>>
                  ELSE <<>>
    /\ call' = [NoCall EXCEPT !.op = op, !.recv = s, !.args = context, !.lvl = lvl]
    /\ UNCHANGED <<loggers, zaps, reqs, hdrs, spanAttrs, propagator, input>>

Debugw(s, msg, keysAndValues) == log("Debugw", s, DebugLevel, msg, <<>>, keysAndValues)
Infow(s, msg, keysAndValues) == log("Infow", s, InfoLevel, msg, <<>>, keysAndValues)
Warnw(s, msg, keysAndValues) == log("Warnw", s, WarnLevel, msg, <<>>, keysAndValues)
Errorw(s, msg, keysAndValues) == log("Errorw", s, ErrorLevel, msg, <<>>, keysAndValues)
DPanicw(s, msg, keysAndValues) == log("DPanicw", s, DPanicLevel, msg, <<>>, keysAndValues)
Panicw(s, msg, keysAndValues) == log("Panicw", s, PanicLevel, msg, <<>>, keysAndValues)
Fatalw(s, msg, keysAndValues) == log("Fatalw", s, FatalLevel, msg, <<>>, keysAndValues)

\* loose arguments: a typed field, a string (key or value), a key that is not a string
LooseInputs == {String("user", "alice"), Str("k"), [t |-> "int", v |-> "42"]}

SugarInit ==
    /\ \E level \in {DebugLevel, InfoLevel} :
          /\ zaps = NewLoggerAt(level).zaps
          /\ loggers = NewLoggerAt(level).loggers
    /\ input \in SeqsUpTo(LooseInputs, MaxLooseArgs)
    /\ reqs = <<>>
    /\ hdrs = <<>>
    /\ spanAttrs = [id \in SpanIds |-> {}]
    /\ propagator = "none"
    /\ call = NoCall
    /\ events = <<>>

SugarNext ==
    \/ \E s \in DOMAIN loggers : SugaredWith(s, input)
    \/ \E s \in DOMAIN loggers, m \in MsgInputs : Debugw(s, m, input)
    \/ \E s \in DOMAIN loggers, m \in MsgInputs : Infow(s, m, input)
    \/ \E s \in DOMAIN loggers, m \in MsgInputs : Warnw(s, m, input)
    \/ \E s \in DOMAIN loggers, m \in MsgInputs : Errorw(s, m, input)
    \/ \E s \in DOMAIN loggers, m \in MsgInputs : DPanicw(s, m, input)
    \/ \E s \in DOMAIN loggers, m \in MsgInputs : Panicw(s, m, input)
    \/ \E s \in DOMAIN loggers, m \in MsgInputs : Fatalw(s, m, input)

SugarSpec == SugarInit /\ [][SugarNext]_vars

(***************************************************************************)
(* Properties.                                                             *)
(***************************************************************************)
Binds == {"SetContext", "Context"}
Derivations == Binds \cup {"With", "Named", "NamedBackground"}

PersistentFields(tl) == zaps[loggers[tl].base].fields

\* the printed form of the identifiers in use
IDText(id) ==
    CASE id = TraceIDA -> "4bf92f3577b34da6a3ce929d0e0e4736"
      [] id = TraceIDB -> "0af7651916cd43dd8448eb211c80319c"
      [] id = SpanIDA -> "00f067aa0ba902b7"
      [] id = SpanIDB -> "b7ad6b7169203331"
      [] id = ZeroID(TraceIDLen) -> "00000000000000000000000000000000"
      [] id = ZeroID(SpanIDLen) -> "0000000000000000"

\* C1: With, SetContext/Context and Named leave every existing Logger as it
\* was (same underlying logger with the same name and fields, same
\* propagation context) and return a Logger instance that did not exist
\* before, so fields added to one result show in no other Logger.
C1_DerivationLeavesLoggersUnchanged ==
    [][call'.op \in Derivations =>
         /\ call'.ret \notin DOMAIN loggers
         /\ call'.ret \in DOMAIN loggers'
         /\ \A tl \in DOMAIN loggers :
               /\ loggers'[tl] = loggers[tl]
               /\ zaps'[loggers'[tl].base] = zaps[loggers[tl].base]]_vars

C1_Witness ==
    /\ Len(loggers) = 3
    /\ call.op = "With" /\ call.recv = 1 /\ call.args # <<>>
    /\ PersistentFields(1) = <<>>
    /\ PersistentFields(2) # <<>>
    /\ PersistentFields(3) # PersistentFields(2)

\* C2: the Logger returned by binding a context c has c as its propagation
\* context and the receiver's underlying logger, extended only by fields.
C2_BoundLoggerKeepsContext ==
    call.op \in Binds =>
       /\ loggers[call.ret].ctx = call.ctx
       /\ zaps[loggers[call.ret].base].name = zaps[loggers[call.recv].base].name

\* C4: binding the result of a bind again to a context carrying the same
\* span does not grow the persistent field set.
C4_RebindDoesNotGrowFields ==
    [][(/\ call.op \in Binds /\ call'.op \in Binds
        /\ call'.recv = call.ret
        /\ HasSpan(call.ctx) /\ call'.ctx.span = call.ctx.span)
       => zaps'[loggers'[call'.ret].base].fields = zaps[loggers[call.ret].base].fields]_vars

\* C5: binding a context whose span has trace identifier T and span
\* identifier S appends exactly four fields to the receiver's fields:
\* traceID and dd.traceID valued T, spanID and dd.spanID valued S.
C5_BindAddsFourTraceFields ==
    (call.op \in Binds /\ HasSpan(call.ctx)) =>
       LET before == PersistentFields(call.recv)
           after == PersistentFields(call.ret)
           added == SubSeq(after, Len(before) + 1, Len(after))
           sc == call.ctx.span.sc
       IN /\ Len(after) = Len(before) + 4
          /\ SubSeq(after, 1, Len(before)) = before
          /\ {added[i].key : i \in 1..4} = {"traceID", "dd.traceID", "spanID", "dd.spanID"}
          /\ \A i \in 1..4 :
                /\ added[i].key \in {"traceID", "dd.traceID"} => added[i].val = Str(IDText(sc.tid))
                /\ added[i].key \in {"spanID", "dd.spanID"} => added[i].val = Str(IDText(sc.sid))

C5_Witness ==
    /\ call.op \in Binds
    /\ HasSpan(call.ctx) /\ IsValid(call.ctx.span.sc)
    /\ PersistentFields(call.recv) # <<>>
    /\ Len(PersistentFields(call.ret)) = Len(PersistentFields(call.recv)) + 4

\* C6: binding a context without an active span adds no field: the returned
\* Logger has the persistent fields of the Logger it was bound from.
C6_BindWithoutSpanAddsNothing ==
    (call.op \in Binds /\ ~HasSpan(call.ctx)) =>
       PersistentFields(call.ret) = PersistentFields(call.recv)

\* C3: WithRequest leaves every request that existed before the call as it
\* was: same attached context and same header set.
C3_WithRequestLeavesOriginal ==
    [][call'.op = "WithRequest" =>
         \A r \in DOMAIN reqs :
            /\ reqs'[r] = reqs[r]
            /\ hdrs'[reqs'[r].hdr] = hdrs[reqs[r].hdr]]_vars

\* the fields of the Logger that binding ctx directly to tl returns
FieldsOfDirectBind(tl, ctx) ==
    LET res == SetContextResult(loggers, zaps, tl, ctx)
    IN res.zaps[res.loggers[res.ret].base].fields

\* C7: for a context c carrying a span, FromRequest(WithRequest(c, r))
\* returns a Logger with the trace fields that binding c directly gives.
C7_InjectExtractRoundTrip ==
    [][(/\ call.op = "WithRequest" /\ HasSpan(call.ctx)
        /\ call'.op = "FromRequest" /\ call'.req = call.ret)
       => zaps'[loggers'[call'.ret].base].fields = FieldsOfDirectBind(call'.recv, call.ctx)]_vars

\* C7 as amended: the same for a context c whose span has valid (non-zero)
\* trace and span identifiers.
C7_ValidSpanRoundTrip ==
    [][(/\ call.op = "WithRequest" /\ HasSpan(call.ctx) /\ IsValid(call.ctx.span.sc)
        /\ call'.op = "FromRequest" /\ call'.req = call.ret)
       => zaps'[loggers'[call'.ret].base].fields = FieldsOfDirectBind(call'.recv, call.ctx)]_vars

\* a Logger bound from the headers that WithRequest wrote for a valid span
C7_Witness ==
    /\ call.op = "FromRequest"
    /\ call.req > 1
    /\ HasSpan(reqs[call.req].ctx) /\ IsValid(reqs[call.req].ctx.span.sc)
    /\ call.ctx.span.kind = "nonrecording" /\ call.ctx.span.sc.remote
    /\ call.ctx.span.sc.tid = reqs[call.req].ctx.span.sc.tid
    /\ Len(PersistentFields(call.ret)) = 4

LeveledOps == {"Debug", "Info", "Warn", "Error", "DPanic", "Panic", "Fatal"}

\* C8: a strict-flavor call passes to the span exactly the attribute
\* arguments, in their order, and to the underlying logger exactly the typed
\* field arguments, in their order; any other argument goes nowhere.
C8_ClassifierSplitsByType ==
    call.op \in LeveledOps =>
       /\ Len(events) = 2
       /\ events[1].kind = "SetAttributes"
       /\ events[1].attrs = SelectSeq(call.args, IsKeyValue)
       /\ events[2].kind = "log"
       /\ events[2].fields = SelectSeq(call.args, IsField)

C8_Witness ==
    /\ call.op \in LeveledOps
    /\ Len(call.args) = 3
    /\ Len(SelectSeq(call.args, IsKeyValue)) = 2
    /\ call.args[1] # call.args[3]
    /\ \E i \in 1..3 : ~IsKeyValue(call.args[i]) /\ ~IsField(call.args[i])

\* the positions (from 1) that the pairer looks at as a typed field or as a key
LoopHeads(args) ==
    LET head[i \in 1..Len(args)] ==
            \/ i = 1
            \/ i >= 2 /\ head[i - 1] /\ IsField(args[i - 1])
            \/ i >= 3 /\ head[i - 2] /\ ~IsField(args[i - 2])
    IN {i \in 1..Len(args) : head[i]}

KeyPositions(args) == {i \in LoopHeads(args) : ~IsField(args[i]) /\ i < Len(args)}

\* the typed fields and the fields of the pairs with a string key, by position
ExpectedFields(args) ==
    LET upTo[i \in 0..Len(args)] ==
            IF i = 0 THEN <<>>
            ELSE upTo[i - 1] \o
                 (IF i \in LoopHeads(args) /\ IsField(args[i]) THEN <<args[i]>>
                  ELSE IF i \in KeyPositions(args) /\ IsString(args[i])
                       THEN <<Field(args[i].v, args[i + 1])>>
                       ELSE <<>>)
    IN upTo[Len(args)]

\* the pairs whose key is not a string, by position, indexed from 0 as the
\* argument list is
ExpectedInvalid(args) ==
    LET upTo[i \in 0..Len(args)] ==
            IF i = 0 THEN <<>>
            ELSE upTo[i - 1] \o
                 (IF i \in KeyPositions(args) /\ ~IsString(args[i])
                  THEN <<[position |-> i - 1, key |-> args[i], value |-> args[i + 1]]>>
                  ELSE <<>>)
    IN upTo[Len(args)]

WOps == {"Debugw", "Infow", "Warnw", "Errorw", "DPanicw", "Panicw", "Fatalw"}

\* a call that ran the pairer: With, or a ...w call at an enabled level
Sweetened == call.op = "SugaredWith" \/ (call.op \in WOps /\ events # <<>>)

\* the fields the pairer returned: those With added, or those of the entry written
ReturnedFields ==
    IF call.op = "SugaredWith"
    THEN SubSeq(PersistentFields(call.ret), Len(PersistentFields(call.recv)) + 1,
                Len(PersistentFields(call.ret)))
    ELSE events[Len(events)].fields

\* the side entries of the call
Diagnostics ==
    IF call.op = "SugaredWith" THEN events ELSE SubSeq(events, 1, Len(events) - 1)

IsInvalidReport(e) == e.msg = Str(nonStringKeyErrMsg)
IsDanglingReport(e) == e.msg = Str(oddNumberErrMsg)

Dangling(args) ==
    /\ Len(args) \in LoopHeads(args)
    /\ ~IsField(args[Len(args)])

LevelOf(op) ==
    CASE op = "Debug" -> DebugLevel
      [] op = "Info" -> InfoLevel
      [] op = "Warn" -> WarnLevel
      [] op = "Error" -> ErrorLevel
      [] op = "DPanic" -> DPanicLevel
      [] op = "Panic" -> PanicLevel
      [] op = "Fatal" -> FatalLevel

\* C11: a leveled call on the Logger that binding a context with an active
\* (recording) span returned first sets the call's trace attributes on that
\* span and then forwards the message and the typed fields to the
\* underlying logger at the level of the entry point.
C11_LeveledCallTagsBoundSpan ==
    [][(/\ call.op \in Binds /\ HasSpan(call.ctx) /\ call.ctx.span.kind = "recording"
        /\ call'.op \in LeveledOps /\ call'.recv = call.ret)
       => LET tags == SelectSeq(call'.args, IsKeyValue)
          IN /\ Len(events') = 2
             /\ events'[1] = SetAttributesEvent(call.ctx.span, tags)
             /\ \A i \in DOMAIN tags : tags[i] \in spanAttrs'[call.ctx.span.id]
             /\ events'[2] = LogEvent(loggers[call.ret].base, LevelOf(call'.op), Str("msg"),
                                      SelectSeq(call'.args, IsField))]_vars

====
